---- MODULE Spec2Model ----
(***************************************************************************)
(* Model of sheetcombine.py: a single-threaded batch job that fetches a    *)
(* game schedule, resolves each probable pitcher's id (memoised), fetches  *)
(* the season pitching stats with retries, assembles one 23-field row per  *)
(* game and overwrites a sheet range with headers + rows.                  *)
(*                                                                         *)
(* The program is sequential; pc is the position of its one thread.  The   *)
(* external collaborators (schedule, roster and stats requests, the        *)
(* credential/client construction, the range clear and range update) are   *)
(* modelled by their outcomes: a normal answer drawn from a small set, or  *)
(* a raised exception.                                                     *)
(***************************************************************************)
EXTENDS Integers, Sequences, FiniteSets, TLC

\* ---------------------------------------------------------------- bounds
\* Longest schedule the provider answers with.
MaxGames == 2

\* The per-name counters of resolver calls and roster requests count up to
\* this and stay there.
FetchCap == 2

\* ------------------------------------------------------ program constants
\* get_player_stats(player_id, season, retries=3)
retries == 3

\* Python's None, as returned by get_player_id (player ids are positive).
None == -1

\* relevant_keys of get_player_stats, in list order.
relevant_keys ==
    << "era", "whip", "strikeoutsPer9Inn", "walksPer9Inn", "hitsPer9Inn",
       "runsScoredPer9", "homeRunsPer9", "inningsPitched", "gamesStarted" >>

\* The key list of the two row-filling loops of process_game_data.
row_keys ==
    << "era", "whip", "strikeoutsPer9Inn", "walksPer9Inn", "hitsPer9Inn",
       "runsScoredPer9", "homeRunsPer9", "inningsPitched", "gamesStarted" >>

\* headers of write_to_google_sheets.
headers ==
    << "Game ID", "Away Team", "Home Team", "Away Pitcher", "Home Pitcher",
       "Away ERA", "Away WHIP", "Away K/9", "Away BB/9", "Away H/9",
       "Away R/9", "Away HR/9", "Away IP", "Away GS",
       "Home ERA", "Home WHIP", "Home K/9", "Home BB/9", "Home H/9",
       "Home R/9", "Home HR/9", "Home IP", "Home GS" >>

\* numeric_columns of write_to_google_sheets.
numeric_columns ==
    { "Away ERA", "Away WHIP", "Away K/9", "Away BB/9", "Away H/9",
      "Away R/9", "Away HR/9", "Away IP", "Away GS",
      "Home ERA", "Home WHIP", "Home K/9", "Home BB/9", "Home H/9",
      "Home R/9", "Home HR/9", "Home IP", "Home GS" }

\* ------------------------------------------------------------ the inputs
Range(s) == { s[i] : i \in 1..Len(s) }

\* Pitcher display names occurring in schedules and rosters; "" is the
\* empty name a game may carry.
PitcherNames == { "A", "B" }
AllNames == PitcherNames \cup { "" }

\* One side's probable pitcher in a schedule entry: the key is missing
\* ("absent"), or present with an empty or a real name.
Absent == "<absent>"

\* A schedule entry as statsapi.schedule gives it (the fields the job reads).
Game(id, a, h) ==
    LET base == [ game_id |-> id, away_name |-> "AWY", home_name |-> "HME" ]
        withA == IF a = Absent THEN base
                 ELSE [ k \in DOMAIN base \cup {"away_probable_pitcher"} |->
                          IF k = "away_probable_pitcher" THEN a ELSE base[k] ]
    IN  IF h = Absent THEN withA
        ELSE [ k \in DOMAIN withA \cup {"home_probable_pitcher"} |->
                 IF k = "home_probable_pitcher" THEN h ELSE withA[k] ]

\* The (away, home) pitcher pairs a schedule entry may carry: each side
\* absent, empty and named; two different names; the same name twice.
GameKinds ==
    { << Absent, "A" >>, << "B", "" >>, << "", Absent >>,
      << "A", "B" >>, << "A", "A" >> }

\* The schedules the provider may answer with: 0..MaxGames games of these
\* kinds in any order, game ids distinct.
Schedules ==
    UNION { { [ i \in 1..n |-> Game(i, p[i][1], p[i][2]) ] :
                p \in [ 1..n -> GameKinds ] } :
            n \in 0..MaxGames }

\* The rosters ('people') the provider may answer a roster request with.
Rosters ==
    { << [ fullName |-> "A", id |-> 1 ], [ fullName |-> "B", id |-> 2 ] >>,
      << [ fullName |-> "A", id |-> 1 ] >> }

\* data['stats'][0]['stats'] of a stats answer: all nine keys, or some
\* missing.  "-.--" is what the provider sends for an undefined rate.
FullStats(id) ==
    IF id = 1
    THEN [ era |-> "3.45", whip |-> "1.10", strikeoutsPer9Inn |-> "9.80",
           walksPer9Inn |-> "2.50", hitsPer9Inn |-> "7.70",
           runsScoredPer9 |-> "3.60", homeRunsPer9 |-> "0.90",
           inningsPitched |-> "120.1", gamesStarted |-> "20" ]
    ELSE [ era |-> "-.--", whip |-> "1.31", strikeoutsPer9Inn |-> "8.20",
           walksPer9Inn |-> "3.10", hitsPer9Inn |-> "8.80",
           runsScoredPer9 |-> "4.40", homeRunsPer9 |-> "1.20",
           inningsPitched |-> "98.2", gamesStarted |-> "17" ]

PartialStats(id) ==
    [ k \in { "era", "inningsPitched" } |-> FullStats(id)[k] ]

StatsAnswers(id) == { FullStats(id), PartialStats(id) }

\* ------------------------------------------------------- pure operations
\* dict.get(key, default)
DictGet(d, key, default) == IF key \in DOMAIN d THEN d[key] ELSE default

\* The empty dict {}.
EmptyDict == [ k \in {} |-> "" ]

\* A guard that lets the empty name through.
TruthyAnyName(name) == TRUE

\* Python truthiness of a pitcher name (if away_pitcher_name:).
Truthy(name) == name # ""

\* A guard that lets None through.
IdTruthyAnyId(id) == TRUE

\* Python truthiness of a resolver result (if away_id:).
IdTruthy(id) == id # None /\ id # 0

\* A lookup that never finds the name.
CacheHitNever(cache, name) == FALSE

\* name in cache_player_ids
CacheHit(cache, name) == name \in DOMAIN cache

\* cache_player_ids[player_name] = player['id']
CachePut(cache, name, id) ==
    [ n \in DOMAIN cache \cup { name } |-> IF n = name THEN id ELSE cache[n] ]

\* The for-loop of get_player_id: the id of the first roster entry whose
\* fullName equals the name, None when there is none.
RECURSIVE MatchFrom(_, _, _)
MatchFrom(players, name, i) ==
    IF i > Len(players) THEN None
    ELSE IF players[i].fullName = name THEN players[i].id
    ELSE MatchFrom(players, name, i + 1)

MatchRoster(players, name) == MatchFrom(players, name, 1)

\* {key: stats.get(key, "") for key in relevant_keys}
ExtractStats(stats) ==
    [ k \in Range(relevant_keys) |-> DictGet(stats, k, "") ]

\* {key: '' for key in relevant_keys}
Placeholders == [ k \in Range(relevant_keys) |-> "" ]

\* A loop that runs one iteration too many.
MoreAttemptsInclusive(attempt, n) == attempt <= n

\* for attempt in range(retries): another iteration is due.
MoreAttempts(attempt, n) == attempt < n

\* The row of one game: five leading fields, then the away block and the
\* home block, each filled by iterating row_keys.
StatBlock(stats) == [ i \in 1..Len(row_keys) |-> DictGet(stats, row_keys[i], "") ]

\* A row whose two stat blocks are appended in the other order.
RowOfSwapped(game, away_pitcher, home_pitcher, a_stats, h_stats) ==
    << game.game_id, game.away_name, game.home_name, away_pitcher, home_pitcher >>
      \o StatBlock(h_stats) \o StatBlock(a_stats)

RowOf(game, away_pitcher, home_pitcher, a_stats, h_stats) ==
    << game.game_id, game.away_name, game.home_name, away_pitcher, home_pitcher >>
      \o StatBlock(a_stats) \o StatBlock(h_stats)

\* A loop that returns data after its first iteration.
MoreGamesFirstOnly(i, gs) == i < Len(gs) /\ i = 0

\* for game in games: there is a next game.
MoreGames(i, gs) == i < Len(gs)

\* pd.to_numeric(errors='coerce') followed by fillna(""): a string that
\* parses as a number becomes that number (kept here in thousandths), any
\* other value becomes blank.
NumericTable ==
    [ s \in { "3.45", "1.10", "9.80", "2.50", "7.70", "3.60", "0.90", "120.1",
              "20", "1.31", "8.20", "3.10", "8.80", "4.40", "1.20", "98.2",
              "17" } |->
        CASE s = "3.45" -> 3450 [] s = "1.10" -> 1100 [] s = "9.80" -> 9800
          [] s = "2.50" -> 2500 [] s = "7.70" -> 7700 [] s = "3.60" -> 3600
          [] s = "0.90" -> 900  [] s = "120.1" -> 120100 [] s = "20" -> 20000
          [] s = "1.31" -> 1310 [] s = "8.20" -> 8200 [] s = "3.10" -> 3100
          [] s = "8.80" -> 8800 [] s = "4.40" -> 4400 [] s = "1.20" -> 1200
          [] s = "98.2" -> 98200 [] s = "17" -> 17000 ]

Coerce(v) == IF v \in DOMAIN NumericTable THEN NumericTable[v] ELSE ""

CoerceRow(row) ==
    [ i \in 1..Len(row) |->
        IF headers[i] \in numeric_columns THEN Coerce(row[i]) ELSE row[i] ]

\* values = [df.columns.tolist()] + df.values.tolist()
Payload(rows) == << headers >> \o [ i \in 1..Len(rows) |-> CoerceRow(rows[i]) ]

\* The pitcher name process_game_data reads for a side.
PitcherKey(s) == IF s = "away" THEN "away_probable_pitcher" ELSE "home_probable_pitcher"
PitcherOf(game, s) == DictGet(game, PitcherKey(s), "")

\* ------------------------------------------------------------- the state
VARIABLES
    pc,                 \* position of the single thread of control
    games,              \* games of __main__ / process_game_data
    gi,                 \* index of the game the for-loop is at (0: none yet)
    data,               \* data of process_game_data: the rows assembled
    away_pitcher_name,  \* locals of the loop body of process_game_data
    home_pitcher_name,
    away_stats,
    home_stats,
    side,               \* the side whose resolver / retriever call is active
    player_id,          \* away_id / home_id: what get_player_id returned
    attempt,            \* attempt of get_player_stats
    keys_bound,         \* whether the local relevant_keys has been assigned
    cache_player_ids,   \* the module-level memoisation table
    error,              \* the uncaught exception that ended the process
    sheet,              \* the destination range and the calls made on it
    log,                \* the kinds of message the Sheet Writer has printed
    fetches,            \* per name: resolver calls and roster requests made,
                        \* the first call's outcome, and whether the roster
                        \* was requested while the name was in the table
    sidelog,            \* per side of the current game: the calls made for
                        \* it and what they returned
    call                \* the get_player_stats call of the current side:
                        \* requests made, attempts failed, errors printed,
                        \* sleeps taken, the answer and the value returned

vars == << pc, games, gi, data, away_pitcher_name, home_pitcher_name,
           away_stats, home_stats, side, player_id, attempt, keys_bound,
           cache_player_ids, error, sheet, log, fetches, sidelog, call >>

Sides == { "away", "home" }

NoSideLog ==
    [ idCalls |-> 0, idOutcome |-> "none", idRet |-> None,
      statsCalls |-> 0, statsRet |-> EmptyDict ]

NoCall ==
    [ status |-> "none", reqs |-> 0, failed |-> 0, printed |-> 0,
      sleeps |-> 0, answer |-> EmptyDict, result |-> EmptyDict ]

Init ==
    /\ pc = "fetch"
    /\ games = << >>
    /\ gi = 0
    /\ data = << >>
    /\ away_pitcher_name = ""
    /\ home_pitcher_name = ""
    /\ away_stats = EmptyDict
    /\ home_stats = EmptyDict
    /\ side = "away"
    /\ player_id = None
    /\ attempt = 0
    /\ keys_bound = FALSE
    /\ cache_player_ids = [ n \in {} |-> None ]
    /\ error = "none"
    /\ sheet = [ cleared |-> FALSE, values |-> << >>, clearCalls |-> 0,
                 writeCalls |-> 0, clearFailed |-> FALSE, writeFailed |-> FALSE ]
    /\ log = {}
    /\ fetches = [ n \in AllNames |->
                     [ calls |-> 0, roster |-> 0, first |-> "none", stale |-> FALSE ] ]
    /\ sidelog = [ s \in Sides |-> NoSideLog ]
    /\ call = NoCall

\* ---------------------------------------------------------------- __main__
\* games = fetch_schedule(start_date, end_date): the provider answers.
FetchSchedule ==
    /\ pc = "fetch"
    /\ \E gs \in Schedules : games' = gs
    /\ pc' = "loop"
    /\ UNCHANGED << gi, data, away_pitcher_name, home_pitcher_name, away_stats,
                    home_stats, side, player_id, attempt, keys_bound,
                    cache_player_ids, error, sheet, log, fetches, sidelog, call >>

\* statsapi.schedule raises: fetch_schedule and __main__ have no handler.
FetchScheduleRaises ==
    /\ pc = "fetch"
    /\ pc' = "crashed"
    /\ error' = "schedule"
    /\ UNCHANGED << games, gi, data, away_pitcher_name, home_pitcher_name,
                    away_stats, home_stats, side, player_id, attempt, keys_bound,
                    cache_player_ids, sheet, log, fetches, sidelog, call >>

\* ------------------------------------------------------ process_game_data
\* for game in games: the next game's names are read and both stats dicts
\* reset.
NextGame ==
    /\ pc = "loop"
    /\ MoreGames(gi, games)
    /\ gi' = gi + 1
    /\ away_pitcher_name' = PitcherOf(games[gi + 1], "away")
    /\ home_pitcher_name' = PitcherOf(games[gi + 1], "home")
    /\ away_stats' = EmptyDict
    /\ home_stats' = EmptyDict
    /\ sidelog' = [ s \in Sides |-> NoSideLog ]
    /\ pc' = "away"
    /\ UNCHANGED << games, data, side, player_id, attempt, keys_bound,
                    cache_player_ids, error, sheet, log, fetches, call >>

\* The loop is exhausted: return data; __main__ calls write_to_google_sheets.
ReturnData ==
    /\ pc = "loop"
    /\ ~ MoreGames(gi, games)
    /\ pc' = "creds"
    /\ UNCHANGED << games, gi, data, away_pitcher_name, home_pitcher_name,
                    away_stats, home_stats, side, player_id, attempt, keys_bound,
                    cache_player_ids, error, sheet, log, fetches, sidelog, call >>

\* if away_pitcher_name: / if home_pitcher_name: call get_player_id, or skip
\* the side.
NameOf(s) == IF s = "away" THEN away_pitcher_name ELSE home_pitcher_name
AfterSide(s) == IF s = "away" THEN "home" ELSE "row"

CheckName(s) ==
    /\ pc = s
    /\ IF Truthy(NameOf(s))
       THEN /\ side' = s
            /\ pc' = "gid"
       ELSE /\ pc' = AfterSide(s)
            /\ UNCHANGED side
    /\ UNCHANGED << games, gi, data, away_pitcher_name, home_pitcher_name,
                    away_stats, home_stats, player_id, attempt, keys_bound,
                    cache_player_ids, error, sheet, log, fetches, sidelog, call >>

CheckAwayName == CheckName("away")
CheckHomeName == CheckName("home")

\* ----------------------------------------------------------- get_player_id
UpTo(n) == IF n > FetchCap THEN FetchCap ELSE n

\* What a call of get_player_id leaves behind for the caller's side.
Resolved(name, outcome, id) ==
    /\ player_id' = id
    /\ sidelog' = [ sidelog EXCEPT ![side] =
                      [ @ EXCEPT !.idCalls = @ + 1, !.idOutcome = outcome,
                                 !.idRet = id ] ]
    /\ fetches' = [ fetches EXCEPT ![name] =
                      [ calls |-> UpTo(@.calls + 1),
                        roster |-> UpTo(@.roster + (IF outcome = "cached" THEN 0 ELSE 1)),
                        first |-> IF @.calls = 0 THEN outcome ELSE @.first,
                        stale |-> @.stale \/ ( /\ outcome # "cached"
                                               /\ name \in DOMAIN cache_player_ids ) ] ]
    /\ pc' = "id"

\* The name is in the table: the cached id is returned, nothing is fetched.
GetPlayerIdCached ==
    /\ pc = "gid"
    /\ CacheHit(cache_player_ids, NameOf(side))
    /\ Resolved(NameOf(side), "cached", cache_player_ids[NameOf(side)])
    /\ UNCHANGED << games, gi, data, away_pitcher_name, home_pitcher_name,
                    away_stats, home_stats, side, attempt, keys_bound,
                    cache_player_ids, error, sheet, log, call >>

\* A miss: the roster is requested and answered; a match is cached and
\* returned, otherwise None is returned and nothing is cached.
GetPlayerIdFetch ==
    /\ pc = "gid"
    /\ ~ CacheHit(cache_player_ids, NameOf(side))
    /\ \E players \in Rosters :
         LET id == MatchRoster(players, NameOf(side)) IN
         IF id # None
         THEN /\ cache_player_ids' = CachePut(cache_player_ids, NameOf(side), id)
              /\ Resolved(NameOf(side), "match", id)
         ELSE /\ UNCHANGED cache_player_ids
              /\ Resolved(NameOf(side), "nomatch", None)
    /\ UNCHANGED << games, gi, data, away_pitcher_name, home_pitcher_name,
                    away_stats, home_stats, side, attempt, keys_bound,
                    error, sheet, log, call >>

\* A miss, and the roster request raises: the except clause prints the
\* error (outcome "error"), None is returned, nothing is cached.
GetPlayerIdError ==
    /\ pc = "gid"
    /\ ~ CacheHit(cache_player_ids, NameOf(side))
    /\ Resolved(NameOf(side), "error", None)
    /\ UNCHANGED << games, gi, data, away_pitcher_name, home_pitcher_name,
                    away_stats, home_stats, side, attempt, keys_bound,
                    cache_player_ids, error, sheet, log, call >>

\* if away_id: / if home_id: call get_player_stats, or skip it.
CheckId ==
    /\ pc = "id"
    /\ IF IdTruthy(player_id)
       THEN /\ pc' = "gps"
            /\ attempt' = 0
            /\ keys_bound' = FALSE
            /\ call' = [ NoCall EXCEPT !.status = "running" ]
            /\ sidelog' = [ sidelog EXCEPT ![side].statsCalls = @ + 1 ]
            /\ UNCHANGED player_id
       ELSE /\ pc' = AfterSide(side)
            /\ player_id' = None
            /\ UNCHANGED << attempt, keys_bound, call, sidelog >>
    /\ UNCHANGED << games, gi, data, away_pitcher_name, home_pitcher_name,
                    away_stats, home_stats, side, cache_player_ids,
                    error, sheet, log, fetches >>

\* -------------------------------------------------------- get_player_stats
\* return <dict> of get_player_stats: the caller assigns it to away_stats or
\* home_stats and goes on with the next side.  The locals of the returned
\* call (attempt, relevant_keys) are gone, and the id is not read again.
ReturnStats(result) ==
    /\ away_stats' = IF side = "away" THEN result ELSE away_stats
    /\ home_stats' = IF side = "home" THEN result ELSE home_stats
    /\ sidelog' = [ sidelog EXCEPT ![side].statsRet = result ]
    /\ player_id' = None
    /\ attempt' = 0
    /\ keys_bound' = FALSE
    /\ pc' = AfterSide(side)

\* An attempt whose request is answered and whose extraction succeeds: the
\* nine keys are returned at once.
StatsAttemptOk ==
    /\ pc = "gps"
    /\ MoreAttempts(attempt, retries)
    /\ \E answer \in StatsAnswers(player_id) :
         /\ call' = [ call EXCEPT !.status = "returned", !.reqs = @ + 1,
                                  !.answer = answer,
                                  !.result = ExtractStats(answer) ]
         /\ ReturnStats(ExtractStats(answer))
    /\ UNCHANGED << games, gi, data, away_pitcher_name, home_pitcher_name,
                    side, cache_player_ids, error, sheet, log, fetches >>

\* What the except clause does: print, sleep 2 seconds, next iteration.
AttemptFailed ==
    /\ call' = [ call EXCEPT !.reqs = @ + 1, !.failed = @ + 1,
                             !.printed = @ + 1, !.sleeps = @ + 1 ]
    /\ attempt' = attempt + 1
    /\ pc' = "gps"

\* An attempt that raises before relevant_keys is assigned: the request
\* itself fails, or data['stats'][0]['stats'] does not exist.
StatsAttemptRaises ==
    /\ pc = "gps"
    /\ MoreAttempts(attempt, retries)
    /\ AttemptFailed
    /\ UNCHANGED << games, gi, data, away_pitcher_name, home_pitcher_name,
                    away_stats, home_stats, side, player_id, keys_bound,
                    cache_player_ids, error, sheet, log, fetches, sidelog >>

\* An attempt that raises in the return expression, after relevant_keys was
\* assigned: the answer's 'stats' is no mapping.
StatsExtractRaises ==
    /\ pc = "gps"
    /\ MoreAttempts(attempt, retries)
    /\ keys_bound' = TRUE
    /\ AttemptFailed
    /\ UNCHANGED << games, gi, data, away_pitcher_name, home_pitcher_name,
                    away_stats, home_stats, side, player_id,
                    cache_player_ids, error, sheet, log, fetches, sidelog >>

\* The loop is exhausted and the final return reads relevant_keys, which is
\* bound: the placeholders are returned.
StatsExhaustedReturns ==
    /\ pc = "gps"
    /\ ~ MoreAttempts(attempt, retries)
    /\ keys_bound
    /\ call' = [ call EXCEPT !.status = "exhausted", !.result = Placeholders ]
    /\ ReturnStats(Placeholders)
    /\ UNCHANGED << games, gi, data, away_pitcher_name, home_pitcher_name,
                    side, cache_player_ids, error, sheet, log, fetches >>

\* The loop is exhausted and relevant_keys was never assigned: the final
\* return raises UnboundLocalError, which no caller handles.
StatsExhaustedRaises ==
    /\ pc = "gps"
    /\ ~ MoreAttempts(attempt, retries)
    /\ ~ keys_bound
    /\ call' = [ call EXCEPT !.status = "raised" ]
    /\ error' = "UnboundLocalError"
    /\ pc' = "crashed"
    /\ UNCHANGED << games, gi, data, away_pitcher_name, home_pitcher_name,
                    away_stats, home_stats, side, player_id, attempt,
                    keys_bound, cache_player_ids, sheet, log, fetches, sidelog >>

\* ------------------------------------------- process_game_data, continued
\* The row is built and appended; the loop sleeps half a second (no state
\* changes meanwhile) and goes on.
AppendRow ==
    /\ pc = "row"
    /\ data' = Append(data, RowOf(games[gi], away_pitcher_name,
                                  home_pitcher_name, away_stats, home_stats))
    /\ call' = NoCall
    /\ pc' = "loop"
    /\ UNCHANGED << games, gi, away_pitcher_name, home_pitcher_name,
                    away_stats, home_stats, side, player_id, attempt,
                    keys_bound, cache_player_ids, error, sheet, log, fetches,
                    sidelog >>

\* -------------------------------------------------- write_to_google_sheets
\* Credentials.from_service_account_file and build(...) succeed.
BuildService ==
    /\ pc = "creds"
    /\ pc' = "clear"
    /\ UNCHANGED << games, gi, data, away_pitcher_name, home_pitcher_name,
                    away_stats, home_stats, side, player_id, attempt,
                    keys_bound, cache_player_ids, error, sheet, log, fetches,
                    sidelog, call >>

\* They raise (no credential file, no client): nothing handles it.
BuildServiceRaises ==
    /\ pc = "creds"
    /\ pc' = "crashed"
    /\ error' = "credentials"
    /\ UNCHANGED << games, gi, data, away_pitcher_name, home_pitcher_name,
                    away_stats, home_stats, side, player_id, attempt,
                    keys_bound, cache_player_ids, sheet, log, fetches,
                    sidelog, call >>

\* A writer that gives up when the clear failed.
AfterClearStop(ok) == IF ok THEN "update" ELSE "done"

\* Where write_to_google_sheets goes on after clear_google_sheet_range
\* returned, the clear having succeeded or not.
AfterClear(ok) == "update"

\* clear_google_sheet_range: the clear call succeeds.
ClearRange ==
    /\ pc = "clear"
    /\ sheet' = [ sheet EXCEPT !.cleared = TRUE, !.clearCalls = @ + 1 ]
    /\ log' = log \cup { "cleared" }
    /\ pc' = AfterClear(TRUE)
    /\ UNCHANGED << games, gi, data, away_pitcher_name, home_pitcher_name,
                    away_stats, home_stats, side, player_id, attempt,
                    keys_bound, cache_player_ids, error, fetches, sidelog, call >>

\* clear_google_sheet_range: the clear call raises; it is printed and the
\* function returns normally.
ClearRangeFails ==
    /\ pc = "clear"
    /\ sheet' = [ sheet EXCEPT !.clearCalls = @ + 1, !.clearFailed = TRUE ]
    /\ log' = log \cup { "clear_failed" }
    /\ pc' = AfterClear(FALSE)
    /\ UNCHANGED << games, gi, data, away_pitcher_name, home_pitcher_name,
                    away_stats, home_stats, side, player_id, attempt,
                    keys_bound, cache_player_ids, error, fetches, sidelog, call >>

\* The frame is built and coerced, and the update call succeeds.
UpdateRange ==
    /\ pc = "update"
    /\ sheet' = [ sheet EXCEPT !.values = Payload(data), !.writeCalls = @ + 1 ]
    /\ log' = log \cup { "updated" }
    /\ pc' = "done"
    /\ UNCHANGED << games, gi, data, away_pitcher_name, home_pitcher_name,
                    away_stats, home_stats, side, player_id, attempt,
                    keys_bound, cache_player_ids, error, fetches, sidelog, call >>

\* The update call raises; it is printed and the function returns.
UpdateRangeFails ==
    /\ pc = "update"
    /\ sheet' = [ sheet EXCEPT !.writeCalls = @ + 1, !.writeFailed = TRUE ]
    /\ log' = log \cup { "update_failed" }
    /\ pc' = "done"
    /\ UNCHANGED << games, gi, data, away_pitcher_name, home_pitcher_name,
                    away_stats, home_stats, side, player_id, attempt,
                    keys_bound, cache_player_ids, error, fetches, sidelog, call >>

\* --------------------------------------------------------- specification
Next ==
    \/ FetchSchedule
    \/ FetchScheduleRaises
    \/ NextGame
    \/ ReturnData
    \/ CheckAwayName
    \/ CheckHomeName
    \/ GetPlayerIdCached
    \/ GetPlayerIdFetch
    \/ GetPlayerIdError
    \/ CheckId
    \/ StatsAttemptOk
    \/ StatsAttemptRaises
    \/ StatsExtractRaises
    \/ StatsExhaustedReturns
    \/ StatsExhaustedRaises
    \/ AppendRow
    \/ BuildService
    \/ BuildServiceRaises
    \/ ClearRange
    \/ ClearRangeFails
    \/ UpdateRange
    \/ UpdateRangeFails

Spec == Init /\ [][Next]_vars

\* ================================================================ claims
\* The nine metrics in the documented order, each with the provider's key.
Metrics ==
    << [ label |-> "ERA",  key |-> "era" ],
       [ label |-> "WHIP", key |-> "whip" ],
       [ label |-> "K/9",  key |-> "strikeoutsPer9Inn" ],
       [ label |-> "BB/9", key |-> "walksPer9Inn" ],
       [ label |-> "H/9",  key |-> "hitsPer9Inn" ],
       [ label |-> "R/9",  key |-> "runsScoredPer9" ],
       [ label |-> "HR/9", key |-> "homeRunsPer9" ],
       [ label |-> "IP",   key |-> "inningsPitched" ],
       [ label |-> "GS",   key |-> "gamesStarted" ] >>

MetricKeys == { Metrics[j].key : j \in 1..Len(Metrics) }

\* The nine all-empty metrics.
NineBlanks == [ k \in MetricKeys |-> "" ]

\* The first field of a side's stat block in a row.
BlockStart(s) == IF s = "away" THEN 5 ELSE 5 + Len(Metrics)

BlockBlank(row, s) ==
    \A j \in 1..Len(Metrics) : row[BlockStart(s) + j] = ""

\* The game carries no pitcher name for the side: key missing, or empty.
Nameless(game, s) ==
    LET key == IF s = "away" THEN "away_probable_pitcher"
                             ELSE "home_probable_pitcher"
    IN  key \notin DOMAIN game \/ game[key] = ""

\* The row of the current game has been appended.
RowAssembled == gi >= 1 /\ Len(data) = gi

\* process_game_data has returned its rows to __main__.
Assembled == pc \in { "creds", "clear", "update", "done" } \/ error = "credentials"

\* ---- C1
\* C1: a get_player_stats call all of whose attempts fail returns exactly
\* the nine metric keys, each mapped to the empty string, and never raises.
C1_AllFailedReturnsBlanks ==
    ( call.status \in { "exhausted", "raised" } /\ call.failed = retries )
        => ( call.status = "exhausted" /\ call.result = NineBlanks )

\* ---- C2
\* C2 as stated: two calls of get_player_id with the same name issue at most
\* one roster fetch in total, whatever the first call's outcome.
C2_AtMostOneFetchPerName ==
    \A n \in AllNames : fetches[n].calls >= 2 => fetches[n].roster <= 1

\* C2 amended: the roster is never requested for a name that is in the
\* table, so calls with a name whose first call found a match issue one
\* roster fetch in total; only matches are ever put in the table.
C2_NoFetchOnceMatched ==
    \A n \in AllNames :
        /\ ~ fetches[n].stale
        /\ fetches[n].first = "match" => fetches[n].roster = 1
        /\ n \in DOMAIN cache_player_ids => cache_player_ids[n] # None

C2_Witness ==
    \E n \in AllNames :
        /\ fetches[n].first = "match"
        /\ fetches[n].calls >= 2
        /\ fetches[n].roster = 1

\* ---- C3
\* C3: for a side without a pitcher name (absent or empty) no resolver call
\* and no retriever call is made, and the side's nine fields of the row are
\* empty strings.
C3_NamelessSideSkipped ==
    /\ \A i \in 1..Len(data) : \A s \in Sides :
           Nameless(games[i], s) => BlockBlank(data[i], s)
    /\ gi >= 1 =>
           \A s \in Sides :
               Nameless(games[gi], s) =>
                   /\ sidelog[s].idCalls = 0
                   /\ sidelog[s].statsCalls = 0

C3_Witness ==
    /\ RowAssembled
    /\ "away_probable_pitcher" \notin DOMAIN games[gi]
    /\ sidelog["home"].statsCalls = 1
    /\ ~ BlockBlank(data[gi], "home")
    /\ BlockBlank(data[gi], "away")

\* ---- C4
\* C4: whatever the roster and stats requests do, process_game_data returns
\* one row per game, in schedule order; it never aborts.
C4_OneRowPerGame ==
    /\ error # "UnboundLocalError"
    /\ Assembled =>
           /\ Len(data) = Len(games)
           /\ \A i \in 1..Len(data) : data[i][1] = games[i].game_id

\* ---- C5
\* C5: whatever external calls fail (schedule, roster, stats, clear, write),
\* the job completes normally: none of them ends it with an uncaught error.
C5_NoFatalAbort ==
    ~ ( pc = "crashed" /\ error \in { "schedule", "UnboundLocalError" } )

\* ---- C6
\* C6: when the resolver finds no roster entry for a named side, or its
\* roster fetch fails, it returns None (the failure printed, not raised), no
\* stats call is made for the side and the side's nine fields are empty.
C6_UnresolvedSideSkipped ==
    gi >= 1 =>
        \A s \in Sides :
            sidelog[s].idOutcome \in { "nomatch", "error" } =>
                /\ ~ Nameless(games[gi], s)
                /\ sidelog[s].idRet = None
                /\ sidelog[s].statsCalls = 0
                /\ ( pc = "gps" => side # s )
                /\ RowAssembled => BlockBlank(data[gi], s)

C6_Witness ==
    /\ RowAssembled
    /\ sidelog["away"].idOutcome = "error"
    /\ sidelog["home"].idOutcome = "nomatch"
    /\ BlockBlank(data[gi], "away")
    /\ BlockBlank(data[gi], "home")

\* ---- C7
\* The 23 headers in the documented order.
DocumentedHeaders ==
    << "Game ID", "Away Team", "Home Team", "Away Pitcher", "Home Pitcher" >>
      \o [ j \in 1..Len(Metrics) |-> "Away " \o Metrics[j].label ]
      \o [ j \in 1..Len(Metrics) |-> "Home " \o Metrics[j].label ]

\* What the retriever returned for a side, "" when it was not called.
Retrieved(s, key) ==
    IF sidelog[s].statsCalls = 0 THEN "" ELSE sidelog[s].statsRet[key]

\* C7: every row has 23 fields: game id, away team, home team, away pitcher,
\* home pitcher, the away pitcher's nine stats in the documented order, then
\* the home pitcher's; each stat field is what the retriever returned for
\* that side; the headers written have the same order.
C7_RowLayout ==
    /\ Len(DocumentedHeaders) = 23
    /\ headers = DocumentedHeaders
    /\ \A i \in 1..Len(data) :
           /\ Len(data[i]) = 23
           /\ data[i][1] = games[i].game_id
           /\ data[i][2] = games[i].away_name
           /\ data[i][3] = games[i].home_name
           /\ data[i][4] = ( IF "away_probable_pitcher" \in DOMAIN games[i]
                             THEN games[i].away_probable_pitcher ELSE "" )
           /\ data[i][5] = ( IF "home_probable_pitcher" \in DOMAIN games[i]
                             THEN games[i].home_probable_pitcher ELSE "" )
    /\ RowAssembled =>
           \A s \in Sides : \A j \in 1..Len(Metrics) :
               data[gi][BlockStart(s) + j] = Retrieved(s, Metrics[j].key)
    /\ ( sheet.writeCalls = 1 /\ ~ sheet.writeFailed ) =>
           /\ Len(sheet.values) = 1 + Len(data)
           /\ sheet.values[1] = DocumentedHeaders
           /\ \A i \in 2..Len(sheet.values) : Len(sheet.values[i]) = 23

C7_Witness ==
    /\ RowAssembled
    /\ sidelog["away"].statsCalls = 1
    /\ sidelog["home"].statsCalls = 1
    /\ \A j \in 1..Len(Metrics) : data[gi][5 + j] # ""
    /\ data[gi][15] # ""
    /\ data[gi][16] = ""
    /\ data[gi][6] # data[gi][15]

\* ---- C8
\* C8 as stated: a failed destination call is printed and the job ends
\* without further action; after a failed clear no write is issued.
C8_NoWriteAfterFailedClear ==
    /\ sheet.clearFailed => ( "clear_failed" \in log /\ sheet.writeCalls = 0 )
    /\ sheet.writeFailed => ( "update_failed" \in log /\ pc = "done" )

\* C8 amended: a failed destination call is printed and not raised; a
\* failed write is the job's last action, whereas after a failed clear the
\* job goes on to issue its one write call and then ends normally.
C8_FailedClearStillWrites ==
    /\ sheet.clearFailed =>
           /\ "clear_failed" \in log
           /\ pc \in { "update", "done" }
           /\ pc = "done" => sheet.writeCalls = 1
    /\ sheet.writeFailed => ( "update_failed" \in log /\ pc = "done" )

C8_Witness ==
    /\ pc = "done"
    /\ sheet.clearFailed
    /\ sheet.writeCalls = 1
    /\ ~ sheet.writeFailed
    /\ Len(sheet.values) >= 2

C10_BoundedRetries ==
    /\ call.reqs <= retries
    /\ call.sleeps <= retries
    /\ call.sleeps = call.failed
    /\ call.printed = call.failed
    /\ call.status = "running" =>
           /\ pc = "gps"
           /\ call.reqs = attempt
           /\ call.failed = call.reqs
    /\ call.status = "returned" =>
           /\ call.failed = call.reqs - 1
           /\ call.result =
                  [ k \in MetricKeys |->
                      IF k \in DOMAIN call.answer THEN call.answer[k] ELSE "" ]
    /\ call.status \in { "exhausted", "raised" } =>
           /\ call.reqs = retries
           /\ call.failed = retries

C10_Witness ==
    /\ call.status = "returned"
    /\ call.reqs = retries
    /\ call.sleeps = retries - 1
    /\ DOMAIN call.answer # MetricKeys
    /\ call.result["whip"] = ""
    /\ call.result["era"] # ""
====
